---------------------------- MODULE Spec2Model ----------------------------
(***************************************************************************)
(* The Fourier epicycle drawing of leihuang.me: the double-ended List      *)
(* (list.js), the discrete Fourier transform (dft.js) and the renderer     *)
(* (home-animation.js): its startup, its frame loop and its resizes.       *)
(*                                                                         *)
(* Values.  JavaScript values stored in a List are modelled as integers:   *)
(* an item is a positive integer, null is Null and undefined is Undefined. *)
(* A JavaScript array is a function from the indices that were ever        *)
(* written (own properties, negative ones included) to values; reading an  *)
(* index that was never written yields Undefined, as in JavaScript.        *)
(***************************************************************************)
EXTENDS Integers, Sequences, FiniteSets, TLC

VARIABLES
  list,     \* the List under test: its fields, as a record
  ref,      \* history: the reference sequence built from the calls made
  lastOp,   \* history: the last call, its arguments and what it returned
  resizes,  \* history: number of _resize calls made by a growth run
  prepends, \* history: number of prepend calls made by a growth run
  appends,  \* history: number of append calls made by a growth run
  iteration, \* the iteration over the List in progress, and what it yielded
  longest,  \* history: the largest length since creation or the last
            \* clear, kept by a run of prepend, append, pop and clear
  helloPath, \* the path: a sequence of points <<x, y>>
  X,        \* what dft returned, in frequency order
  fourier,  \* the descriptors the renderer draws with
  time,     \* the time of the frame drawn, in steps of dt = 2 pi / N
  tip,      \* the end <<x, y>> of the chain of vectors drawn at that time
  pc,       \* how far the startup has come: "path", "dft", "sorted", "drawn",
            \* and "running" once the DOMContentLoaded handler has returned
  design,   \* the bounding box of the path and what is derived from it
  dt,       \* the time step per frame, as a fraction of 2 pi
  path,     \* the trail: a List of the tips drawn
  lastFrameTime,    \* timestamp of the last frame processed, 0 when reset
  animationFrameId, \* handle of the last frame request, 0 for null
  canvas,   \* canvas.style.width and canvas.style.height, in CSS pixels
  callbacks, \* frame scheduler: the requests pending, [handle, fn]
  nextHandle, \* frame scheduler: the last handle given out
  frame,    \* frame scheduler: handles still to run in the current frame
  now,      \* frame scheduler: the timestamp of the current frame
  lastHandler, \* history: the handler that ran last and what it did
  resizedAt \* history: the last handle given out before the last resize

listVars == <<list, ref, lastOp, resizes, prepends, appends, iteration,
              longest>>

dftVars == <<helloPath, X, fourier, time, tip, pc>>

animVars == <<design, dt, path, lastFrameTime, animationFrameId, canvas,
              callbacks, nextHandle, frame, now, lastHandler, resizedAt>>

vars == <<list, ref, lastOp, resizes, prepends, appends, iteration, longest,
          helloPath, X, fourier, time, tip, pc,
          design, dt, path, lastFrameTime, animationFrameId, canvas,
          callbacks, nextHandle, frame, now, lastHandler, resizedAt>>

---------------------------------------------------------------------------
(* Bounds of the model. *)

\* largest initial capacity the general specification constructs
MaxInitCap == 4
\* a call is explored only while the list stays this short
MaxLen == 4
\* ... and while its capacity stays within this
MaxCapacity == 16
\* number of prepend/append calls of a growth run
MaxOps == 40

(* Program constants. *)

\* new Array(n).fill(null)
Null == 0
\* what get and pop return when there is no element
Undefined == -1
\* constructor(initialCapacity = 16)
DefaultCapacity == 16

\* items handed to prepend, append and set by the general specification
Items == {1, 2}

---------------------------------------------------------------------------
(* JavaScript arrays. *)

\* new Array(n).fill(null)
NewArray(n) == [i \in 0 .. n - 1 |-> Null]

\* a[k]
Read(a, k) == IF k \in DOMAIN a THEN a[k] ELSE Undefined

\* a[k] = v
Write(a, k, v) == [i \in DOMAIN a \cup {k} |-> IF i = k THEN v ELSE a[i]]

---------------------------------------------------------------------------
(* class List *)

\* constructor placing the window at the start of the storage
ListHeadAtStart(initialCapacity) ==
  [ initialCapacity |-> initialCapacity,
    _capacity       |-> initialCapacity,
    _buffer         |-> NewArray(initialCapacity),
    _head           |-> 0,
    _tail           |-> -1,
    length          |-> 0 ]

\* constructor(initialCapacity = 16)
List(initialCapacity) ==
  [ initialCapacity |-> initialCapacity,
    _capacity       |-> initialCapacity,
    _buffer         |-> NewArray(initialCapacity),
    _head           |-> initialCapacity \div 2,
    _tail           |-> (initialCapacity \div 2) - 1,
    length          |-> 0 ]

\* _resize() copying from the start of the old storage instead of from _head
_resizeNoOffset(l) ==
  LET newCapacity == l._capacity * 2
      newHead     == (newCapacity - l.length) \div 2
      copied      == {newHead + i : i \in 0 .. l.length - 1}
      newBuffer   == [k \in (0 .. newCapacity - 1) \cup copied |->
                        IF k \in copied
                          THEN Read(l._buffer, k - newHead)
                          ELSE Null]
  IN  [l EXCEPT !._buffer   = newBuffer,
                !._head     = newHead,
                !._tail     = newHead + l.length - 1,
                !._capacity = newCapacity]

\* _resize() that moves _head but leaves _tail where it was
_resizeStaleTail(l) ==
  LET newCapacity == l._capacity * 2
      newHead     == (newCapacity - l.length) \div 2
      copied      == {newHead + i : i \in 0 .. l.length - 1}
      newBuffer   == [k \in (0 .. newCapacity - 1) \cup copied |->
                        IF k \in copied
                          THEN Read(l._buffer, l._head + (k - newHead))
                          ELSE Null]
  IN  [l EXCEPT !._buffer   = newBuffer,
                !._head     = newHead,
                !._capacity = newCapacity]

\* _resize() that copies the elements to the front of the new storage
_resizeToFront(l) ==
  LET newCapacity == l._capacity * 2
      copied      == {i : i \in 0 .. l.length - 1}
      newBuffer   == [k \in (0 .. newCapacity - 1) \cup copied |->
                        IF k \in copied
                          THEN Read(l._buffer, l._head + k)
                          ELSE Null]
  IN  [l EXCEPT !._buffer   = newBuffer,
                !._head     = 0,
                !._tail     = l.length - 1,
                !._capacity = newCapacity]

\* _resize(): double the capacity and recentre the occupied window
_resize(l) ==
  LET newCapacity == l._capacity * 2
      newHead     == (newCapacity - l.length) \div 2
      copied      == {newHead + i : i \in 0 .. l.length - 1}
      newBuffer   == [k \in (0 .. newCapacity - 1) \cup copied |->
                        IF k \in copied
                          THEN Read(l._buffer, l._head + (k - newHead))
                          ELSE Null]
  IN  [l EXCEPT !._buffer   = newBuffer,
                !._head     = newHead,
                !._tail     = newHead + l.length - 1,
                !._capacity = newCapacity]

\* prepend: whether the call resizes first
prependResizes(l) == l._head = 0

\* prepend(item) writing at _head before decrementing it (_head-- for --_head)
prependPostDecrement(l, item) ==
  LET r == IF prependResizes(l) THEN _resize(l) ELSE l
  IN  [r EXCEPT !._buffer = Write(r._buffer, r._head, item),
                !._head   = r._head - 1,
                !.length  = r.length + 1]

\* prepend(item): the list after the call (the call returns its length)
prepend(l, item) ==
  LET r == IF prependResizes(l) THEN _resize(l) ELSE l
  IN  [r EXCEPT !._buffer = Write(r._buffer, r._head - 1, item),
                !._head   = r._head - 1,
                !.length  = r.length + 1]

\* append: whether the call resizes first
appendResizes(l) == l._tail = l._capacity - 1

\* append(item) writing at _tail before incrementing it (_tail++ for ++_tail)
appendPostIncrement(l, item) ==
  LET r == IF appendResizes(l) THEN _resize(l) ELSE l
  IN  [r EXCEPT !._buffer = Write(r._buffer, r._tail, item),
                !._tail   = r._tail + 1,
                !.length  = r.length + 1]

\* append(item): the list after the call (the call returns its length)
append(l, item) ==
  LET r == IF appendResizes(l) THEN _resize(l) ELSE l
  IN  [r EXCEPT !._buffer = Write(r._buffer, r._tail + 1, item),
                !._tail   = r._tail + 1,
                !.length  = r.length + 1]

\* pop(): what the call returns
popResult(l) == IF l.length = 0 THEN Undefined ELSE Read(l._buffer, l._tail)

\* pop() without the check for an empty list
popNoGuard(l) ==
  [l EXCEPT !._buffer = Write(l._buffer, l._tail, Null),
            !._tail   = l._tail - 1,
            !.length  = l.length - 1]

\* pop() that leaves the item in its slot
popLeaveSlot(l) ==
  IF l.length = 0
    THEN l
    ELSE [l EXCEPT !._tail   = l._tail - 1,
                   !.length  = l.length - 1]

\* pop(): the list after the call
pop(l) ==
  IF l.length = 0
    THEN l
    ELSE [l EXCEPT !._buffer = Write(l._buffer, l._tail, Null),
                   !._tail   = l._tail - 1,
                   !.length  = l.length - 1]

\* get(index)
get(l, index) ==
  IF index < 0 \/ index >= l.length
    THEN Undefined
    ELSE Read(l._buffer, l._head + index)

\* set(index, value): what the call returns
setResult(l, index) == ~(index < 0 \/ index >= l.length)

\* set(index, value) with the bound index > length for index >= length
setInclusiveBound(l, index, value) ==
  IF index < 0 \/ index > l.length
    THEN l
    ELSE [l EXCEPT !._buffer = Write(l._buffer, l._head + index, value)]

\* set(index, value) writing at slot index, not at slot _head + index
setAtIndex(l, index, value) ==
  IF index < 0 \/ index >= l.length
    THEN l
    ELSE [l EXCEPT !._buffer = Write(l._buffer, index, value)]

\* set(index, value): the list after the call
set(l, index, value) ==
  IF index < 0 \/ index >= l.length
    THEN l
    ELSE [l EXCEPT !._buffer = Write(l._buffer, l._head + index, value)]

\* clear() emptying the list and keeping the grown storage
clearKeepStorage(l) ==
  [l EXCEPT !._buffer = NewArray(l._capacity),
            !._head   = l._capacity \div 2,
            !._tail   = (l._capacity \div 2) - 1,
            !.length  = 0]

\* clear()
clear(l) ==
  [l EXCEPT !._capacity = l.initialCapacity,
            !._buffer   = NewArray(l.initialCapacity),
            !._head     = l.initialCapacity \div 2,
            !._tail     = (l.initialCapacity \div 2) - 1,
            !.length    = 0]

---------------------------------------------------------------------------
(* History of calls. *)

\* the record of a call: op, its index argument, its item argument, the
\* value it returned (ret) or, for set, the flag it returned (ok), and the
\* capacity the list had when the call was made (cap)
Call(op, index, item, ret, ok, cap) ==
  [op |-> op, index |-> index, item |-> item, ret |-> ret, ok |-> ok,
   cap |-> cap]

NoCall(c) == Call("new", 0, Null, Undefined, FALSE, c)

\* the reference sequence with position index (0-based) replaced
RefSet(s, index, value) ==
  IF index < 0 \/ index >= Len(s) THEN s ELSE [s EXCEPT ![index + 1] = value]

\* the reference sequence without its last element
RefPop(s) == IF Len(s) = 0 THEN s ELSE SubSeq(s, 1, Len(s) - 1)

\* the record of an iteration: who iterates ("none", "iterator" for an
\* object returned by [Symbol.iterator](), "forEach"), the number of the
\* iteration request, the index the iterator is at, the values yielded so
\* far and whether the iteration has reported its end
Iteration(by, request, index, yielded, done) ==
  [by |-> by, request |-> request, index |-> index, yielded |-> yielded,
   done |-> done]

NoIteration == Iteration("none", 0, 0, <<>>, FALSE)

\* a call is explored only while the list stays within the model's bounds
Bounded(l) ==
  /\ l.length <= MaxLen
  /\ l._capacity <= MaxCapacity
  /\ l._head >= -MaxLen

---------------------------------------------------------------------------
(* The general specification: any calls on a list of any small capacity. *)

\* the renderer before the DOMContentLoaded handler has run
NotStarted ==
  /\ design = <<>>
  /\ dt = <<>>
  /\ path = <<>>
  /\ lastFrameTime = 0
  /\ animationFrameId = 0
  /\ canvas = <<>>
  /\ callbacks = {}
  /\ nextHandle = 0
  /\ frame = <<>>
  /\ now = 0
  /\ lastHandler = [kind |-> "none", handle |-> 0, processed |-> FALSE,
                    cancelled |-> 0, scale |-> [n |-> 0, d |-> 0],
                    drawn |-> <<>>, time0 |-> 0, length0 |-> 0,
                    frames |-> 0, sinceWrap |-> 0]
  /\ resizedAt = 0

\* no path is loaded: the List is exercised on its own
NoPath ==
  /\ helloPath = <<>>
  /\ X = <<>>
  /\ fourier = <<>>
  /\ time = 0
  /\ tip = <<0, 0>>
  /\ pc = "path"
  /\ NotStarted

Init ==
  /\ \E c \in 0 .. MaxInitCap : list = List(c) /\ lastOp = NoCall(c)
  /\ ref = <<>>
  /\ resizes = 0
  /\ prepends = 0
  /\ appends = 0
  /\ iteration = NoIteration
  /\ longest = 0
  /\ NoPath

CallPrepend ==
  \E item \in Items :
    /\ Bounded(prepend(list, item))
    /\ list' = prepend(list, item)
    /\ ref' = <<item>> \o ref
    /\ lastOp' = Call("prepend", 0, item, list'.length, FALSE,
                     list._capacity)
    /\ UNCHANGED <<resizes, prepends, appends, iteration, longest, dftVars,
                   animVars>>

CallAppend ==
  \E item \in Items :
    /\ Bounded(append(list, item))
    /\ list' = append(list, item)
    /\ ref' = ref \o <<item>>
    /\ lastOp' = Call("append", 0, item, list'.length, FALSE,
                     list._capacity)
    /\ UNCHANGED <<resizes, prepends, appends, iteration, longest, dftVars,
                   animVars>>

CallPop ==
  /\ list' = pop(list)
  /\ ref' = RefPop(ref)
  /\ lastOp' = Call("pop", 0, Null, popResult(list), FALSE,
                     list._capacity)
  /\ UNCHANGED <<resizes, prepends, appends, iteration, longest, dftVars,
                 animVars>>

CallGet ==
  \E index \in -1 .. list.length :
    /\ list' = list
    /\ lastOp' = Call("get", index, Null, get(list, index), FALSE,
                     list._capacity)
    /\ UNCHANGED <<ref, resizes, prepends, appends, iteration, longest, dftVars,
                 animVars>>

CallSet ==
  \E index \in -1 .. list.length, value \in Items :
    /\ list' = set(list, index, value)
    /\ ref' = RefSet(ref, index, value)
    /\ lastOp' = Call("set", index, value, Undefined, setResult(list, index),
                     list._capacity)
    /\ UNCHANGED <<resizes, prepends, appends, iteration, longest, dftVars,
                   animVars>>

CallClear ==
  /\ list' = clear(list)
  /\ ref' = <<>>
  /\ lastOp' = Call("clear", 0, Null, Undefined, FALSE,
                     list._capacity)
  /\ UNCHANGED <<resizes, prepends, appends, iteration, longest, dftVars,
                 animVars>>

Next == CallPrepend \/ CallAppend \/ CallPop \/ CallGet \/ CallSet \/ CallClear

Spec == Init /\ [][Next]_vars

---------------------------------------------------------------------------
(* Growth runs: only prepend and append, on a fresh list of one of the     *)
(* capacities the claims name, for MaxOps calls.  Every call is handed an  *)
(* item no other call is handed (the k-th prepend the odd number 2k-1, the *)
(* k-th append the even number 2k), so any two elements that change places *)
(* are told apart.                                                         *)

GrowCapacities == {0, 1, 2, DefaultCapacity}

InitGrow ==
  /\ \E c \in GrowCapacities : list = List(c) /\ lastOp = NoCall(c)
  /\ ref = <<>>
  /\ resizes = 0
  /\ prepends = 0
  /\ appends = 0
  /\ iteration = NoIteration
  /\ longest = 0
  /\ NoPath

GrowPrepend ==
  LET item == 2 * (prepends + 1) - 1 IN
    /\ prepends + appends < MaxOps
    /\ list' = prepend(list, item)
    /\ ref' = <<item>> \o ref
    /\ lastOp' = Call("prepend", 0, item, list'.length, FALSE,
                      list._capacity)
    /\ resizes' = resizes + (IF prependResizes(list) THEN 1 ELSE 0)
    /\ prepends' = prepends + 1
    /\ UNCHANGED <<appends, iteration, longest, dftVars, animVars>>

GrowAppend ==
  LET item == 2 * (appends + 1) IN
    /\ prepends + appends < MaxOps
    /\ list' = append(list, item)
    /\ ref' = ref \o <<item>>
    /\ lastOp' = Call("append", 0, item, list'.length, FALSE,
                      list._capacity)
    /\ resizes' = resizes + (IF appendResizes(list) THEN 1 ELSE 0)
    /\ appends' = appends + 1
    /\ UNCHANGED <<prepends, iteration, longest, dftVars, animVars>>

NextGrow == GrowPrepend \/ GrowAppend

SpecGrow == InitGrow /\ [][NextGrow]_vars

---------------------------------------------------------------------------
(* Claims about the List. *)

\* the logical content of a list: get(0), ..., get(length - 1)
Content(l) == [i \in 1 .. l.length |-> get(l, i - 1)]

\* C1 (prepend symmetry): on a list of initial capacity 16, after any
\* interleaving of prepend and append calls, length is the number of calls
\* and get(i) is the i-th element of the reference sequence, for every i.
C1_PrependSymmetry ==
  list.initialCapacity = DefaultCapacity =>
    /\ list.length = prepends + appends
    /\ Len(ref) = prepends + appends
    /\ \A i \in 0 .. list.length - 1 : get(list, i) = ref[i + 1]

\* C1 happens: 40 calls of both kinds were made and the list was resized
\* more than once.
C1_Witness ==
  /\ list.initialCapacity = DefaultCapacity
  /\ prepends + appends >= 40
  /\ prepends >= 10
  /\ appends >= 10
  /\ resizes >= 2

\* C2 (idempotence under growth): after N append calls on a fresh list,
\* get(i) is the i-th appended value for i = 0..N-1, whatever N.
C2_AppendThenGet ==
  prepends = 0 =>
    /\ list.length = appends
    /\ \A i \in 0 .. appends - 1 : get(list, i) = 2 * (i + 1)

\* C2 happens: 33 appends on a list of the default capacity crossed two
\* doublings.
C2_Witness ==
  /\ list.initialCapacity = DefaultCapacity
  /\ prepends = 0
  /\ appends = 33
  /\ list._capacity = 4 * DefaultCapacity

\* C3 (clear resets capacity): right after clear() the whole state of the
\* list is that of a freshly constructed list of the same initial capacity.
C3_ClearIsFresh ==
  lastOp.op = "clear" => list = List(list.initialCapacity)

\* C3 happens: clear() was called on a list grown past its initial capacity.
C3_Witness ==
  /\ lastOp.op = "clear"
  /\ list.initialCapacity > 0
  /\ lastOp.cap > list.initialCapacity

\* an index outside 0..length-1
OutOfRange(l, index) == index < 0 \/ index >= l.length

\* C4 (out-of-bounds safety): get(-1) and get(length) return undefined,
\* set(-1, x) and set(length, x) return false, and the list is unchanged.
C4_OutOfBoundsSafe ==
  [][ /\ (lastOp'.op = "get" /\ OutOfRange(list, lastOp'.index)) =>
           (lastOp'.ret = Undefined /\ list' = list)
      /\ (lastOp'.op = "set" /\ OutOfRange(list, lastOp'.index)) =>
           (lastOp'.ok = FALSE /\ list' = list) ]_vars

\* C4 happens: set(length, x) was called on a non-empty list.
C4_Witness ==
  /\ lastOp.op = "set"
  /\ lastOp.index = list.length
  /\ list.length > 0

\* C5 (pop): on an empty list pop() returns undefined and changes nothing;
\* on a non-empty list it returns the element at index length-1, decreases
\* length by one and leaves get(i) unchanged for every remaining i.
C5_PopContract ==
  [][ lastOp'.op = "pop" =>
        IF list.length = 0
          THEN lastOp'.ret = Undefined /\ list' = list
          ELSE /\ lastOp'.ret = get(list, list.length - 1)
               /\ list'.length = list.length - 1
               /\ list'.length >= 0
               /\ list'._capacity = list._capacity
               /\ \A i \in 0 .. list'.length - 1 :
                    get(list', i) = get(list, i) ]_vars

\* C5 happens: pop() returned an item and left elements behind.
C5_Witness ==
  /\ lastOp.op = "pop"
  /\ lastOp.ret \in Items
  /\ list.length > 0

\* C6 (concrete scenario): three appends on a list of capacity 2 resize
\* exactly once, end with capacity 4 and get(0), get(1), get(2) return the
\* three items in the order appended.
C6_CapacityTwo ==
  (list.initialCapacity = 2 /\ prepends = 0 /\ appends = 3) =>
    /\ resizes = 1
    /\ list._capacity = 4
    /\ Content(list) = <<2, 4, 6>>

\* C6 happens: the third append on a list of capacity 2 was made.
C6_Witness ==
  /\ list.initialCapacity = 2
  /\ prepends = 0
  /\ appends = 3
  /\ lastOp.op = "append"

\* C7 (capacity >= length): in every reachable state, for every initial
\* capacity the constructor accepts, _capacity >= length.
C7_CapacityAtLeastLength == list._capacity >= list.length

---------------------------------------------------------------------------
(* The transform and the chain of vectors drawn from it.                   *)
(*                                                                         *)
(* Numbers.  The paths checked have N = 1, 2 or 4 points with integer      *)
(* coordinates, so every angle 2 pi k n / N is a whole number of quarter   *)
(* turns, every sine and cosine is 0, 1 or -1, and every number the        *)
(* transform computes is a whole number of quarters: a real v is modelled  *)
(* as the integer v * Unit, exactly.  A descriptor's polar pair            *)
(* amp = hypot(re, im), phase = atan2(im, re) is irrational in general; it *)
(* is carried by the Cartesian pair (re, im) it is the polar form of, amp  *)
(* is compared through its square ampSq, and amp * cos(a + phase),         *)
(* amp * sin(a + phase) are evaluated by the angle addition formulas as    *)
(* re * cos(a) - im * sin(a) and re * sin(a) + im * cos(a).                *)

\* the path lengths checked
PathLengths == {1, 2, 4}

\* the coordinates the points of a path are drawn from
Coords == {-3, 0, 10}

\* the denominator of the numbers modelled: the largest path length, which
\* every other path length divides
Unit == CHOOSE m \in PathLengths : \A n \in PathLengths : n <= m

\* the real number v
Real(v) == v * Unit

\* cos and sin of q quarter turns
CosQ(q) == CASE q % 4 = 0 -> 1 [] q % 4 = 1 -> 0 [] q % 4 = 2 -> -1 [] OTHER -> 0

SinQ(q) == CASE q % 4 = 0 -> 0 [] q % 4 = 1 -> 1 [] q % 4 = 2 -> 0 [] OTHER -> -1

\* the angle 2 pi k n / N in quarter turns
Phi(k, n, N) == (4 * k * n) \div N

\* helloPath.map((pt) => ({ re: pt[0], im: pt[1] }))
complexPoints(pts) ==
  [n \in 1 .. Len(pts) |-> [re |-> Real(pts[n][1]), im |-> Real(pts[n][2])]]

\* the inner loop of dft for the real part: the sum over n = from .. N-1
RECURSIVE SumRe(_, _, _)
SumRe(x, k, from) ==
  IF from >= Len(x) THEN 0
  ELSE LET phi == Phi(k, from, Len(x)) IN
         x[from + 1].re * CosQ(phi) + x[from + 1].im * SinQ(phi)
           + SumRe(x, k, from + 1)

\* the inner loop of dft for the imaginary part
RECURSIVE SumIm(_, _, _)
SumIm(x, k, from) ==
  IF from >= Len(x) THEN 0
  ELSE LET phi == Phi(k, from, Len(x)) IN
         (-x[from + 1].re) * SinQ(phi) + x[from + 1].im * CosQ(phi)
           + SumIm(x, k, from + 1)

\* one descriptor: { re, im, freq, amp, phase }
Descriptor(re, im, freq) ==
  [re |-> re, im |-> im, freq |-> freq, ampSq |-> re * re + im * im]

\* dft without the division by N
dftNoNormalise(x) ==
  [j \in 1 .. Len(x) |->
     Descriptor(SumRe(x, j - 1, 0), SumIm(x, j - 1, 0), j - 1)]

\* dft multiplying by e^(+i phi) instead of e^(-i phi): the sums of
\* frequency -k (that is N - k) are filed under frequency k
dftPlusSign(x) ==
  [j \in 1 .. Len(x) |->
     LET k == (Len(x) - (j - 1)) % Len(x) IN
       Descriptor(SumRe(x, k, 0) \div Len(x),
                  SumIm(x, k, 0) \div Len(x),
                  j - 1)]

\* dft with the loop bound k <= N - 1 taken as "at least the mean term":
\* one zero descriptor is returned for an empty input
dftAtLeastOne(x) ==
  IF Len(x) = 0 THEN <<Descriptor(0, 0, 0)>>
  ELSE [j \in 1 .. Len(x) |->
          Descriptor(SumRe(x, j - 1, 0) \div Len(x),
                     SumIm(x, j - 1, 0) \div Len(x),
                     j - 1)]

\* dft numbering the frequencies from 1
dftFrequencyFromOne(x) ==
  [j \in 1 .. Len(x) |->
     Descriptor(SumRe(x, j - 1, 0) \div Len(x),
                SumIm(x, j - 1, 0) \div Len(x),
                j)]

\* dft(x): the descriptor of frequency k is at index k (here k + 1)
dft(x) ==
  [j \in 1 .. Len(x) |->
     Descriptor(SumRe(x, j - 1, 0) \div Len(x),
                SumIm(x, j - 1, 0) \div Len(x),
                j - 1)]

\* the sign of v
Sign(v) == IF v > 0 THEN 1 ELSE IF v < 0 THEN -1 ELSE 0

\* the comparator a.amp - b.amp: smallest first
compareAmpAscending(a, b) == Sign(a.ampSq - b.ampSq)

\* the comparator (a, b) => b.amp - a.amp: its sign is that of the
\* difference of the squares, amplitudes being >= 0
compareAmp(a, b) == Sign(b.ampSq - a.ampSq)

\* s, which is sorted, with e put behind every element that does not
\* have to come after it
RECURSIVE Insert(_, _)
Insert(s, e) ==
  IF s = <<>> THEN <<e>>
  ELSE IF compareAmp(s[1], e) > 0 THEN <<e>> \o s
  ELSE <<s[1]>> \o Insert(Tail(s), e)

\* Array.prototype.sort with the comparator: a stable sort
RECURSIVE sort(_)
sort(s) ==
  IF s = <<>> THEN <<>>
  ELSE Insert(sort(SubSeq(s, 1, Len(s) - 1)), s[Len(s)])

\* draw: what one descriptor adds to x and y at time t * dt, dt = 2 pi / N:
\* radius * cos(freq * time + phase), radius * sin(freq * time + phase)
Contribution(d, t, N) ==
  LET a == Phi(d.freq, t, N) IN
    << d.re * CosQ(a) - d.im * SinQ(a), d.re * SinQ(a) + d.im * CosQ(a) >>

\* draw: the loop over the descriptors from index i on, starting at <<x, y>>
RECURSIVE Epicycles(_, _, _, _)
Epicycles(f, t, i, xy) ==
  IF i > Len(f) THEN xy
  ELSE LET c == Contribution(f[i], t, Len(f)) IN
         Epicycles(f, t, i + 1, <<xy[1] + c[1], xy[2] + c[2]>>)

\* the paths checked
Paths ==
  UNION {[1 .. N -> Coords \X Coords] : N \in PathLengths}

InitDft ==
  /\ helloPath \in Paths
  /\ X = <<>>
  /\ fourier = <<>>
  /\ time = 0
  /\ tip = <<0, 0>>
  /\ pc = "path"
  /\ list = List(DefaultCapacity)
  /\ lastOp = NoCall(DefaultCapacity)
  /\ ref = <<>>
  /\ resizes = 0
  /\ prepends = 0
  /\ appends = 0
  /\ iteration = NoIteration
  /\ longest = 0
  /\ NotStarted

\* dft(complexPoints)
Transform ==
  /\ pc = "path"
  /\ X' = dft(complexPoints(helloPath))
  /\ fourier' = X'
  /\ pc' = "dft"
  /\ UNCHANGED <<helloPath, time, tip, listVars, animVars>>

\* .sort((a, b) => b.amp - a.amp)
SortByAmp ==
  /\ pc = "dft"
  /\ fourier' = sort(fourier)
  /\ pc' = "sorted"
  /\ UNCHANGED <<helloPath, X, time, tip, listVars, animVars>>

\* the chain of vectors of draw at one of the sample times
Draw ==
  /\ pc \in {"sorted", "drawn"}
  /\ \E t \in 0 .. Len(fourier) - 1 :
       /\ time' = t
       /\ tip' = Epicycles(fourier, t, 1, <<0, 0>>)
  /\ pc' = "drawn"
  /\ UNCHANGED <<helloPath, X, fourier, listVars, animVars>>

NextDft == Transform \/ SortByAmp \/ Draw

SpecDft == InitDft /\ [][NextDft]_vars

---------------------------------------------------------------------------
(* Claims about the transform. *)

\* the square path of the concrete scenario
Square == << <<0, 0>>, <<10, 0>>, <<10, 10>>, <<0, 10>> >>

\* the sum of coordinate c (1: x, 2: y) of the points of pts from index i on
RECURSIVE CoordSum(_, _, _)
CoordSum(pts, c, i) ==
  IF i > Len(pts) THEN 0 ELSE pts[i][c] + CoordSum(pts, c, i + 1)

\* C8 (round trip): the contributions of all N descriptors at time
\* t_n = 2 pi n / N add up to point n of the path, for every n.
C8_RoundTrip ==
  pc = "drawn" =>
    /\ tip[1] = Real(helloPath[time + 1][1])
    /\ tip[2] = Real(helloPath[time + 1][2])

\* C8 happens: the third corner of the square was drawn at time 2 dt.
C8_Witness ==
  /\ pc = "drawn"
  /\ helloPath = Square
  /\ time = 2
  /\ tip = <<Real(10), Real(10)>>

\* C9 (mean): the descriptor of frequency 0 has re = mean of the x and
\* im = mean of the y coordinates; the square yields 4 descriptors and
\* re = 5, im = 5 at frequency 0.
C9_MeanAtFrequencyZero ==
  pc # "path" =>
    /\ X[1].freq = 0
    /\ X[1].re * Len(helloPath) = Real(CoordSum(helloPath, 1, 1))
    /\ X[1].im * Len(helloPath) = Real(CoordSum(helloPath, 2, 1))
    /\ helloPath = Square =>
         (Len(X) = 4 /\ X[1].re = Real(5) /\ X[1].im = Real(5))

\* C9 happens: the square was transformed.
C9_Witness ==
  /\ pc = "dft"
  /\ helloPath = Square
  /\ X[1].re = Real(5)

\* C10 (amplitude ordering): the sorted list is a permutation of what the
\* transform returned, amplitudes do not increase along it, and descriptors
\* of equal amplitude stay in ascending order of frequency.
C10_AmplitudeOrder ==
  pc \in {"sorted", "drawn"} =>
    /\ Len(fourier) = Len(X)
    /\ {fourier[i] : i \in 1 .. Len(fourier)} = {X[i] : i \in 1 .. Len(X)}
    /\ \A i \in 1 .. Len(fourier) : fourier[1].ampSq >= fourier[i].ampSq
    /\ \A i, j \in 1 .. Len(fourier) :
         i < j =>
           /\ fourier[i].ampSq >= fourier[j].ampSq
           /\ fourier[i].ampSq = fourier[j].ampSq =>
                fourier[i].freq < fourier[j].freq

\* C10 happens: a sort moved descriptors and kept two of equal, non-zero
\* amplitude in frequency order.
C10_Witness ==
  /\ pc = "sorted"
  /\ Len(fourier) = 4
  /\ fourier # X
  /\ \E i \in 1 .. 3 :
       /\ fourier[i].ampSq = fourier[i + 1].ampSq
       /\ fourier[i].ampSq > 0

---------------------------------------------------------------------------
(* JavaScript numbers of the renderer's geometry.                          *)
(*                                                                         *)
(* A number is a fraction [n, d] with d >= 0: d > 0 is the finite number   *)
(* n / d, 1/0 is Infinity, -1/0 is -Infinity and 0/0 is NaN.  The sign of  *)
(* a zero is not modelled.                                                 *)

Num(v) == [n |-> v, d |-> 1]

Infinity == [n |-> 1, d |-> 0]

NegInfinity == [n |-> -1, d |-> 0]

NaN == [n |-> 0, d |-> 0]

isFinite(a) == a.d # 0

isNaN(a) == a.d = 0 /\ a.n = 0

\* -a
Neg(a) == [n |-> -a.n, d |-> a.d]

\* a < b
Lt(a, b) ==
  IF isNaN(a) \/ isNaN(b) THEN FALSE
  ELSE IF a.d = 0 /\ b.d = 0 THEN a.n < b.n
  ELSE a.n * b.d < b.n * a.d

\* a > b
Gt(a, b) == Lt(b, a)

\* a + b
Add(a, b) ==
  IF isNaN(a) \/ isNaN(b) THEN NaN
  ELSE IF a.d = 0 /\ b.d = 0 THEN (IF a.n = b.n THEN a ELSE NaN)
  ELSE IF a.d = 0 THEN a
  ELSE IF b.d = 0 THEN b
  ELSE [n |-> a.n * b.d + b.n * a.d, d |-> a.d * b.d]

\* a - b
Sub(a, b) == Add(a, Neg(b))

\* a * b
Mul(a, b) ==
  IF isNaN(a) \/ isNaN(b) THEN NaN
  ELSE IF a.d = 0 \/ b.d = 0
    THEN [n |-> Sign(a.n) * Sign(b.n), d |-> 0]
  ELSE [n |-> a.n * b.n, d |-> a.d * b.d]

\* a / b
Div(a, b) ==
  IF isNaN(a) \/ isNaN(b) THEN NaN
  ELSE IF a.d = 0 /\ b.d = 0 THEN NaN
  ELSE IF a.d = 0 THEN [n |-> a.n * (IF b.n < 0 THEN -1 ELSE 1), d |-> 0]
  ELSE IF b.d = 0 THEN Num(0)
  ELSE IF b.n = 0 THEN [n |-> Sign(a.n), d |-> 0]
  ELSE [n |-> a.n * b.d * Sign(b.n), d |-> a.d * b.n * Sign(b.n)]

\* Math.min(a, b)
MathMin(a, b) ==
  IF isNaN(a) \/ isNaN(b) THEN NaN ELSE IF Lt(b, a) THEN b ELSE a

---------------------------------------------------------------------------
(* The renderer: what the DOMContentLoaded handler computes once. *)

\* const animationSpeed = 1
animationSpeed == 1

\* the bounds before the first point
NoBounds ==
  [minX |-> Infinity, maxX |-> NegInfinity,
   minY |-> Infinity, maxY |-> NegInfinity]

\* helloPath.forEach((pt) => { if (pt[0] < minX) minX = pt[0]; ... }),
\* from point i on
RECURSIVE Bounds(_, _, _)
Bounds(pts, i, b) ==
  IF i > Len(pts) THEN b
  ELSE LET x == Num(pts[i][1])
           y == Num(pts[i][2])
       IN  Bounds(pts, i + 1,
                  [minX |-> IF Lt(x, b.minX) THEN x ELSE b.minX,
                   maxX |-> IF Gt(x, b.maxX) THEN x ELSE b.maxX,
                   minY |-> IF Lt(y, b.minY) THEN y ELSE b.minY,
                   maxY |-> IF Gt(y, b.maxY) THEN y ELSE b.maxY])

\* designWidth, designHeight, designCenterX, designCenterY
Design(pts) ==
  LET b == Bounds(pts, 1, NoBounds)
      w == Sub(b.maxX, b.minX)
      h == Sub(b.maxY, b.minY)
  IN  [minX |-> b.minX, maxX |-> b.maxX, minY |-> b.minY, maxY |-> b.maxY,
       designWidth   |-> w,
       designHeight  |-> h,
       designCenterX |-> Add(b.minX, Div(w, Num(2))),
       designCenterY |-> Add(b.minY, Div(h, Num(2)))]

\* time step that counts one point more
TimeStepPerPointMore(f) == Div(Num(1), Num(Len(f) + 1))

\* const dt = (2 * Math.PI) / fourier.length, as a fraction of 2 pi
TimeStep(f) == Div(Num(1), Num(Len(f)))

\* Math.max(a, b)
MathMax(a, b) ==
  IF isNaN(a) \/ isNaN(b) THEN NaN ELSE IF Lt(a, b) THEN b ELSE a

\* scale that takes the larger of the two factors
ScaleMax(cv, dsg) ==
  LET scaleX == Div(cv.width, dsg.designWidth)
      scaleY == Div(cv.height, dsg.designHeight)
  IN  Mul(MathMax(scaleX, scaleY), [n |-> 9, d |-> 10])

\* draw: scale = Math.min(cssWidth / designWidth, cssHeight / designHeight) * 0.9
Scale(cv, dsg) ==
  LET scaleX == Div(cv.width, dsg.designWidth)
      scaleY == Div(cv.height, dsg.designHeight)
  IN  Mul(MathMin(scaleX, scaleY), [n |-> 9, d |-> 10])

\* draw: ctx.translate(cssWidth / 2, cssHeight / 2); ctx.scale(scale, scale);
\* ctx.translate(-designCenterX, -designCenterY): where the design point
\* <<x, y>> is drawn on the canvas
toCanvas(cv, dsg, scale, x, y) ==
  <<Add(Div(cv.width, Num(2)), Mul(scale, Add(x, Neg(dsg.designCenterX)))),
    Add(Div(cv.height, Num(2)), Mul(scale, Add(y, Neg(dsg.designCenterY))))>>

\* the viewports a resize finds: <<canvasContainer.clientWidth,
\* window.innerHeight>>
Viewports == {<<300, 900>>, <<600, 150>>}

\* resizeCanvas: newWidth, and newHeight = Math.min(newWidth * (2 / 3),
\* window.innerHeight), set as canvas.style.width and canvas.style.height
CanvasSize(vp) ==
  [width  |-> Num(vp[1]),
   height |-> MathMin(Mul(Num(vp[1]), [n |-> 2, d |-> 3]), Num(vp[2]))]

---------------------------------------------------------------------------
(* The frame scheduler of the browser. *)

\* requestAnimationFrame that drops the request
requestNothing(cbs, fn, h) == cbs

\* requestAnimationFrame(fn), which returns handle h
requestAnimationFrame(cbs, fn, h) == cbs \cup {[handle |-> h, fn |-> fn]}

\* cancelAnimationFrame(h)
cancelAnimationFrame(cbs, h) == {c \in cbs : c.handle # h}

\* the handles of the requests pending
Handles(cbs) == {c.handle : c \in cbs}

\* the draw requests pending
DrawRequests(cbs) == {c \in cbs : c.fn = "draw"}

---------------------------------------------------------------------------
(* The handlers of the renderer. *)

\* the record of a handler run: which handler, the handle of the request
\* that called it (0 for an event), whether a frame was processed, the
\* handle it cancelled (0 for none), the scale it drew with, the points
\* of the trail it drew (index 0 first), the time and the trail length
\* it found, the number of frames processed since the drawing state was
\* last reset by resizeCanvas, and the number processed since it was last
\* reset or time was last wrapped (a processed frame that does not leave
\* time advanced has wrapped it)
Handler(kind, handle, processed, cancelled, scale, drawn) ==
  LET reset == kind \in {"load", "resize", "fullscreen"}
  IN  [kind |-> kind, handle |-> handle, processed |-> processed,
       cancelled |-> cancelled, scale |-> scale, drawn |-> drawn,
       time0 |-> time,
       length0 |-> IF pc = "running" THEN path.length ELSE 0,
       frames |-> IF reset THEN 0
                  ELSE IF processed THEN lastHandler.frames + 1
                  ELSE lastHandler.frames,
       sinceWrap |-> IF reset THEN 0
                     ELSE IF processed
                            THEN IF time' <= time THEN 0
                                 ELSE lastHandler.sinceWrap + 1
                     ELSE lastHandler.sinceWrap]

\* resizeCanvas that does not cancel the pending request
cancelNothing(cbs, id) == cbs

\* resizeCanvas: if (animationFrameId) cancelAnimationFrame(animationFrameId)
cancelPending(cbs, id) ==
  IF id # 0 THEN cancelAnimationFrame(cbs, id) ELSE cbs

\* resizeCanvas that keeps the trail
resizeCanvasKeepTrail(cbs, p, id, vp) ==
  /\ canvas' = CanvasSize(vp)
  /\ path' = p
  /\ time' = 0
  /\ lastFrameTime' = 0
  /\ nextHandle' = nextHandle + 1
  /\ callbacks' = requestAnimationFrame(cancelPending(cbs, id),
                                        "draw", nextHandle + 1)
  /\ animationFrameId' = nextHandle + 1
  /\ resizedAt' = nextHandle

\* resizeCanvas(), called with requests cbs pending, trail p and stored
\* handle id, finding viewport vp: the request pending is cancelled, the
\* canvas sized, the drawing state reset and the loop restarted
resizeCanvas(cbs, p, id, vp) ==
  /\ canvas' = CanvasSize(vp)
  /\ path' = clear(p)
  /\ time' = 0
  /\ lastFrameTime' = 0
  /\ nextHandle' = nextHandle + 1
  /\ callbacks' = requestAnimationFrame(cancelPending(cbs, id),
                                        "draw", nextHandle + 1)
  /\ animationFrameId' = nextHandle + 1
  /\ resizedAt' = nextHandle

\* the DOMContentLoaded handler: bounds, descriptors, animation state, the
\* resize listener and the first resizeCanvas()
Load ==
  /\ pc = "path"
  /\ design' = Design(helloPath)
  /\ X' = dft(complexPoints(helloPath))
  /\ fourier' = sort(X')
  /\ dt' = TimeStep(fourier')
  /\ \E vp \in Viewports :
       resizeCanvas(callbacks, List(Len(fourier')), 0, vp)
  /\ lastHandler' = Handler("load", 0, FALSE, 0, NaN, <<>>)
  /\ pc' = "running"
  /\ UNCHANGED <<helloPath, tip, frame, now, listVars>>

---------------------------------------------------------------------------
(* Startup on any path, the empty one included. *)

InitStartup ==
  /\ helloPath \in Paths \cup {<<>>}
  /\ X = <<>>
  /\ fourier = <<>>
  /\ time = 0
  /\ tip = <<0, 0>>
  /\ pc = "path"
  /\ list = List(DefaultCapacity)
  /\ lastOp = NoCall(DefaultCapacity)
  /\ ref = <<>>
  /\ resizes = 0
  /\ prepends = 0
  /\ appends = 0
  /\ iteration = NoIteration
  /\ longest = 0
  /\ NotStarted

NextStartup == Load

SpecStartup == InitStartup /\ [][NextStartup]_vars

\* C18 (empty-path guard): with an empty path the time step is not a
\* division by the descriptor count 0, and the bounding box, the time step
\* and the scale are finite.
C18_EmptyPathGuarded ==
  (pc = "running" /\ Len(helloPath) = 0) =>
    /\ isFinite(dt)
    /\ isFinite(design.minX) /\ isFinite(design.maxX)
    /\ isFinite(design.minY) /\ isFinite(design.maxY)
    /\ isFinite(design.designWidth) /\ isFinite(design.designHeight)
    /\ isFinite(Scale(canvas, design))

\* C19 (empty transform): dft of an empty sequence of points returns an
\* empty sequence of descriptors.
C19_EmptyTransform ==
  (pc = "running" /\ Len(helloPath) = 0) => (X = <<>> /\ fourier = <<>>)

\* C19 happens: the startup ran on the empty path.
C19_Witness ==
  /\ pc = "running"
  /\ helloPath = <<>>
  /\ path = List(0)

---------------------------------------------------------------------------
(* Claims about single prepend and append calls (checked under Spec). *)

\* C20 (prepend and append): prepend and append each make length one larger
\* and return the new length.  After prepend(item), get(0) is item and the
\* element formerly at i is at i + 1; after append(item), get(length - 1)
\* is item and every former element keeps its index.  This holds as well
\* when the call resizes the storage.
C20_PrependAppendStep ==
  [][ /\ lastOp'.op \in {"prepend", "append"} =>
           /\ list'.length = list.length + 1
           /\ lastOp'.ret = list'.length
      /\ lastOp'.op = "prepend" =>
           /\ get(list', 0) = lastOp'.item
           /\ \A i \in 0 .. list.length - 1 :
                get(list', i + 1) = get(list, i)
      /\ lastOp'.op = "append" =>
           /\ get(list', list'.length - 1) = lastOp'.item
           /\ \A i \in 0 .. list.length - 1 :
                get(list', i) = get(list, i) ]_vars

\* C20 happens: an append on a list holding three elements doubled the
\* capacity and returned 4.
C20_Witness ==
  /\ lastOp.op = "append"
  /\ lastOp.cap >= 2
  /\ list._capacity = 2 * lastOp.cap
  /\ lastOp.ret = 4
  /\ list.length = 4

---------------------------------------------------------------------------
(* The animation loop: frames of the scheduler, ticks of draw, resizes. *)

\* the most handles the scheduler hands out
MaxHandle == 9

\* the latest timestamp of a frame
MaxClock == 9000

\* timestamps are counted in sixtieths of a millisecond
Ms(v) == v * 60

\* the time from one frame to the next: half the target interval, the
\* target interval, one and a half times the target interval
Deltas == {500, 1000, 1500}

\* gate that also passes a frame exactly one target interval late
gateInclusive(elapsed) == elapsed >= (Ms(1000) \div 60) \div animationSpeed

\* gate that passes every tick
gateAlways(elapsed) == TRUE

\* draw: elapsed > 1000 / 60 / animationSpeed
gate(elapsed) == elapsed > (Ms(1000) \div 60) \div animationSpeed

\* a point {x, y} of the trail, as one item of the list
CoordMax == CHOOSE m \in {Real(c) : c \in Coords} :
              \A c \in Coords : Real(c) <= m /\ -Real(c) <= m

Point(xy) == (xy[1] + CoordMax) * (2 * CoordMax + 1) + (xy[2] + CoordMax) + 1

\* draw that advances time by two steps
timeAdvancedTwice(t) == t + 2

\* draw: time += dt, in units of dt
timeAdvanced(t) == t + 1

\* wrap test that lets time reach 2 pi
wrappedStrict(t, N) == t > N

\* draw: time >= 2 * Math.PI, in units of dt = 2 pi / N
wrapped(t, N) == t >= N

\* wrap that forgets the modulo
reducedKept(t, N) == t

\* draw: time % (2 * Math.PI), in units of dt = 2 pi / N
reduced(t, N) == t % N

\* the handles pending, in the order they were requested
RECURSIVE InOrder(_)
InOrder(hs) ==
  IF hs = {} THEN <<>>
  ELSE LET h == CHOOSE m \in hs : \A k \in hs : m <= k
       IN  <<h>> \o InOrder(hs \ {h})

\* the request with handle h
Request(h) == CHOOSE c \in callbacks : c.handle = h

\* draw that advances time before it computes the tip
drawAdvanceFirst(kind, h, cbs, currentTime) ==
  LET started   == IF lastFrameTime = 0 THEN currentTime ELSE lastFrameTime
      elapsed   == currentTime - started
      processed == gate(elapsed)
      N         == Len(fourier)
      xy        == Epicycles(fourier, timeAdvanced(time), 1, <<0, 0>>)
      trail     == prepend(path, Point(xy))
      t         == timeAdvanced(time)
  IN  /\ IF processed
           THEN /\ lastFrameTime' = currentTime
                /\ tip' = xy
                /\ IF wrapped(t, N)
                     THEN time' = reduced(t, N) /\ path' = clear(trail)
                     ELSE time' = t /\ path' = trail
           ELSE /\ lastFrameTime' = started
                /\ UNCHANGED <<tip, time, path>>
      /\ nextHandle' = nextHandle + 1
      /\ callbacks' = requestAnimationFrame(cbs, "draw", nextHandle + 1)
      /\ animationFrameId' = nextHandle + 1
      /\ lastHandler' = Handler(kind, h, processed, 0,
                                IF processed THEN Scale(canvas, design)
                                             ELSE NaN,
                                IF processed THEN Content(trail) ELSE <<>>)

\* draw(currentTime), called for the request with handle h while requests
\* cbs are pending; kind names the caller in the record of the run
draw(kind, h, cbs, currentTime) ==
  LET started   == IF lastFrameTime = 0 THEN currentTime ELSE lastFrameTime
      elapsed   == currentTime - started
      processed == gate(elapsed)
      N         == Len(fourier)
      xy        == Epicycles(fourier, time, 1, <<0, 0>>)
      trail     == prepend(path, Point(xy))
      t         == timeAdvanced(time)
  IN  /\ IF processed
           THEN /\ lastFrameTime' = currentTime
                /\ tip' = xy
                /\ IF wrapped(t, N)
                     THEN time' = reduced(t, N) /\ path' = clear(trail)
                     ELSE time' = t /\ path' = trail
           ELSE /\ lastFrameTime' = started
                /\ UNCHANGED <<tip, time, path>>
      /\ nextHandle' = nextHandle + 1
      /\ callbacks' = requestAnimationFrame(cbs, "draw", nextHandle + 1)
      /\ animationFrameId' = nextHandle + 1
      /\ lastHandler' = Handler(kind, h, processed, 0,
                                IF processed THEN Scale(canvas, design)
                                             ELSE NaN,
                                IF processed THEN Content(trail) ELSE <<>>)

\* the scheduler starts a frame: the requests pending now are the ones
\* this frame calls
BeginFrame ==
  /\ pc = "running"
  /\ frame = <<>>
  /\ callbacks # {}
  /\ \E d \in Deltas :
       /\ now + d <= MaxClock
       /\ now' = now + d
  /\ frame' = InOrder(Handles(callbacks))
  /\ lastHandler' = Handler("frame", 0, FALSE, 0, NaN, <<>>)
  /\ UNCHANGED <<helloPath, X, fourier, time, tip, pc, design, dt, path,
                 lastFrameTime, animationFrameId, canvas, callbacks,
                 nextHandle, resizedAt, listVars>>

\* the frame calls draw
Tick ==
  /\ frame # <<>>
  /\ Head(frame) \in Handles(callbacks)
  /\ Request(Head(frame)).fn = "draw"
  /\ nextHandle < MaxHandle
  /\ draw("tick", Head(frame), cancelAnimationFrame(callbacks, Head(frame)),
          now)
  /\ frame' = Tail(frame)
  /\ UNCHANGED <<helloPath, X, fourier, pc, design, dt, canvas, now,
                 resizedAt, listVars>>

\* the frame calls the callback of the fullscreen button, which dispatches
\* a resize event: resizeCanvas runs inside the frame
FullscreenResize ==
  /\ frame # <<>>
  /\ Head(frame) \in Handles(callbacks)
  /\ Request(Head(frame)).fn = "resize"
  /\ nextHandle < MaxHandle
  /\ \E vp \in Viewports :
       resizeCanvas(cancelAnimationFrame(callbacks, Head(frame)), path,
                    animationFrameId, vp)
  /\ lastHandler' = Handler("fullscreen", Head(frame), FALSE,
                            animationFrameId, NaN, <<>>)
  /\ frame' = Tail(frame)
  /\ UNCHANGED <<helloPath, X, fourier, tip, pc, design, dt, now, listVars>>

\* the frame passes over a request that was cancelled after the frame began
SkipCancelled ==
  /\ frame # <<>>
  /\ Head(frame) \notin Handles(callbacks)
  /\ frame' = Tail(frame)
  /\ lastHandler' = Handler("skip", Head(frame), FALSE, 0, NaN, <<>>)
  /\ UNCHANGED <<helloPath, X, fourier, time, tip, pc, design, dt, path,
                 lastFrameTime, animationFrameId, canvas, callbacks,
                 nextHandle, now, resizedAt, listVars>>

\* a resize event of the window, between two frames
ResizeEvent ==
  /\ pc = "running"
  /\ frame = <<>>
  /\ nextHandle < MaxHandle
  /\ \E vp \in Viewports :
       resizeCanvas(callbacks, path, animationFrameId, vp)
  /\ lastHandler' = Handler("resize", 0, FALSE, animationFrameId, NaN, <<>>)
  /\ UNCHANGED <<helloPath, X, fourier, tip, pc, design, dt, frame, now,
                 listVars>>

\* a click on the fullscreen button, between two frames
Click ==
  /\ pc = "running"
  /\ frame = <<>>
  /\ nextHandle < MaxHandle
  /\ nextHandle' = nextHandle + 1
  /\ callbacks' = requestAnimationFrame(callbacks, "resize", nextHandle + 1)
  /\ lastHandler' = Handler("click", 0, FALSE, 0, NaN, <<>>)
  /\ UNCHANGED <<helloPath, X, fourier, time, tip, pc, design, dt, path,
                 lastFrameTime, animationFrameId, canvas, frame, now,
                 resizedAt, listVars>>

\* the paths animated: a square, a segment (zero height) and a single point
AnimPaths ==
  {Square, << <<0, 0>>, <<10, 0>> >>, << <<-3, -3>>, <<10, 0>> >>,
   << <<-3, 10>> >>}

InitAnim ==
  /\ helloPath \in AnimPaths
  /\ X = <<>>
  /\ fourier = <<>>
  /\ time = 0
  /\ tip = <<0, 0>>
  /\ pc = "path"
  /\ list = List(DefaultCapacity)
  /\ lastOp = NoCall(DefaultCapacity)
  /\ ref = <<>>
  /\ resizes = 0
  /\ prepends = 0
  /\ appends = 0
  /\ iteration = NoIteration
  /\ longest = 0
  /\ NotStarted

NextAnim ==
  \/ Load
  \/ BeginFrame
  \/ Tick
  \/ FullscreenResize
  \/ SkipCancelled
  \/ ResizeEvent
  \/ Click

SpecAnim == InitAnim /\ [][NextAnim]_vars

---------------------------------------------------------------------------
(* Claims about the animation loop (checked under SpecAnim). *)

\* C11 (one pending draw): after any interleaving of ticks, resize events
\* and resizes dispatched inside a frame by the fullscreen button, at most
\* one request for draw is pending, it is the one whose handle is stored,
\* and no draw request made before a resize is pending or runs after it.
C11_SinglePendingDraw ==
  pc = "running" =>
    /\ Cardinality(DrawRequests(callbacks)) <= 1
    /\ \A c \in DrawRequests(callbacks) :
         c.handle = animationFrameId /\ c.handle > resizedAt
    /\ lastHandler.kind = "tick" => lastHandler.handle > resizedAt

\* C11 happens: a resize ran inside a frame, after ticks had drawn a trail,
\* cancelled the request the tick of the same frame had made, and a second
\* callback of the fullscreen button is still to run in this frame.
C11_Witness ==
  /\ lastHandler.kind = "fullscreen"
  /\ lastHandler.length0 > 0
  /\ lastHandler.cancelled > lastHandler.handle
  /\ frame # <<>>
  /\ Cardinality(DrawRequests(callbacks)) = 1

\* C13 (degenerate-path guard): every processed frame divides by a
\* non-zero width and height and draws with a finite, positive scale, also
\* for a path of zero width or height.
C13_ScaleFinitePositive ==
  lastHandler.processed =>
    /\ design.designWidth # Num(0)
    /\ design.designHeight # Num(0)
    /\ isFinite(lastHandler.scale)
    /\ Gt(lastHandler.scale, Num(0))

\* C14 (resize): a resize in any animation state leaves time = 0, the trail
\* as a fresh list of its initial capacity and lastFrameTime = 0; the
\* request stored before is cancelled and no longer pending, exactly one
\* draw request, a new one, is pending; descriptors and bounding box are
\* unchanged.  The first resizeCanvas() of the startup cancels nothing.
C14_ResizeResets ==
  [][ /\ lastHandler'.kind \in {"resize", "fullscreen"} =>
           /\ time' = 0
           /\ path' = List(path.initialCapacity)
           /\ lastFrameTime' = 0
           /\ lastHandler'.cancelled = animationFrameId
           /\ animationFrameId \notin Handles(callbacks')
           /\ DrawRequests(callbacks') =
                {[handle |-> animationFrameId', fn |-> "draw"]}
           /\ animationFrameId' \notin Handles(callbacks)
           /\ fourier' = fourier
           /\ X' = X
           /\ design' = design
           /\ dt' = dt
      /\ lastHandler'.kind = "load" =>
           /\ time' = 0
           /\ path' = List(Len(fourier'))
           /\ lastFrameTime' = 0
           /\ lastHandler'.cancelled = 0
           /\ callbacks' = {[handle |-> animationFrameId', fn |-> "draw"]} ]_vars

\* C14 happens: a resize event arrived with time advanced and points on
\* the trail, and cancelled the pending request.
C14_Witness ==
  /\ lastHandler.kind = "resize"
  /\ lastHandler.time0 > 0
  /\ lastHandler.length0 > 1
  /\ lastHandler.cancelled # 0
  /\ time = 0
  /\ path.length = 0

\* C15 (throttle gate, as claimed): a tick whose elapsed time does not
\* exceed the target interval leaves time, the trail and lastFrameTime
\* unchanged, and only requests the next frame and stores its handle.
C15_GateNoChange ==
  [][ LET started == IF lastFrameTime = 0 THEN now ELSE lastFrameTime
      IN  (/\ lastHandler'.kind = "tick"
           /\ (now - started) * 60 * animationSpeed <= Ms(1000)) =>
            /\ time' = time
            /\ path' = path
            /\ lastFrameTime' = lastFrameTime
            /\ animationFrameId' # animationFrameId
            /\ callbacks' =
                 requestAnimationFrame(
                   cancelAnimationFrame(callbacks, lastHandler'.handle),
                   "draw", animationFrameId') ]_vars

\* C15 (throttle gate, amended): a tick whose elapsed time does not exceed
\* the target interval leaves time and the trail unchanged; lastFrameTime
\* is unchanged unless it was unset (0), then it becomes the timestamp of
\* the tick; the tick only requests the next frame and stores its handle.
C15_GateSetsOnlyUnsetTimestamp ==
  [][ LET started == IF lastFrameTime = 0 THEN now ELSE lastFrameTime
      IN  (/\ lastHandler'.kind = "tick"
           /\ (now - started) * 60 * animationSpeed <= Ms(1000)) =>
            /\ time' = time
            /\ path' = path
            /\ lastFrameTime' = started
            /\ animationFrameId' # animationFrameId
            /\ callbacks' =
                 requestAnimationFrame(
                   cancelAnimationFrame(callbacks, lastHandler'.handle),
                   "draw", animationFrameId') ]_vars

\* C15 happens: a tick came exactly one target interval after the last
\* processed frame, with points on the trail, and did not pass the gate.
C15_Witness ==
  /\ lastHandler.kind = "tick"
  /\ ~lastHandler.processed
  /\ lastFrameTime # 0
  /\ (now - lastFrameTime) * 60 * animationSpeed = Ms(1000)
  /\ lastHandler.length0 > 0
  /\ path.length = lastHandler.length0

C17_TimeInRange ==
  pc = "running" =>
    /\ time \in 0 .. Len(fourier) - 1
    /\ ~Lt(Mul(Num(time), dt), Num(0))
    /\ Lt(Mul(Num(time), dt), Num(1))

\* C17 happens: three processed frames of the square brought time to the
\* last index, one step before the wrap.
C17_Witness ==
  /\ pc = "running"
  /\ Len(fourier) = 4
  /\ time = 3
  /\ path.length = 3
  /\ lastHandler.kind = "tick"

---------------------------------------------------------------------------
(* A scheduler whose cancellation takes effect late: the draw request a    *)
(* resize event has just cancelled is called all the same in the next      *)
(* frame.                                                                  *)

\* draw called for the request the last resize event cancelled
LateTick ==
  /\ pc = "running"
  /\ frame = <<>>
  /\ lastHandler.kind = "resize"
  /\ lastHandler.cancelled # 0
  /\ nextHandle < MaxHandle
  /\ \E d \in Deltas :
       /\ now + d <= MaxClock
       /\ now' = now + d
       /\ draw("late", lastHandler.cancelled, callbacks, now + d)
  /\ UNCHANGED <<helloPath, X, fourier, pc, design, dt, canvas, frame,
                 resizedAt, listVars>>

NextRace ==
  \/ Load
  \/ BeginFrame
  \/ Tick
  \/ FullscreenResize
  \/ SkipCancelled
  \/ ResizeEvent
  \/ Click
  \/ LateTick

SpecRace == InitAnim /\ [][NextRace]_vars

\* C12 (scheduling race): a tick that fires for a request a resize has
\* cancelled discards itself: it changes neither time, the trail nor
\* lastFrameTime and requests no further frame.
C12_StaleTickDiscarded ==
  [][ lastHandler'.kind = "late" =>
        /\ time' = time
        /\ path' = path
        /\ lastFrameTime' = lastFrameTime
        /\ callbacks' = callbacks
        /\ animationFrameId' = animationFrameId ]_vars

---------------------------------------------------------------------------
(* Iteration over the List: the iterator objects of [Symbol.iterator]()    *)
(* and forEach.  An iteration runs while no other call is made on the      *)
(* list; when it has reported its end it may be requested again or be      *)
(* dropped, and the calls on the list go on.                               *)

\* the most iteration requests made one after the other
MaxRequests == 2

\* next() yielding the element before the one the index is at
nextValueBefore(l, index) == get(l, index - 1)

\* next(): the value of list.get(index++)
nextValue(l, index) == get(l, index)

\* forEach(callback): the values callback is called with, from index i on
RECURSIVE forEach(_, _, _)
forEach(l, i, out) ==
  IF i < l.length THEN forEach(l, i + 1, Append(out, get(l, i))) ELSE out

\* list[Symbol.iterator](): a new iterator object, at index 0
CallIterator ==
  /\ iteration.by = "none" \/ iteration.done
  /\ iteration.request < MaxRequests
  /\ iteration' = Iteration("iterator", iteration.request + 1, 0, <<>>, FALSE)
  /\ UNCHANGED <<list, ref, lastOp, resizes, prepends, appends, longest,
                 dftVars,
                 animVars>>

\* next() on the iterator object
CallNext ==
  /\ iteration.by = "iterator"
  /\ IF iteration.index < list.length
       THEN iteration' =
              [iteration EXCEPT
                 !.yielded = Append(@, nextValue(list, iteration.index)),
                 !.index = @ + 1]
       ELSE iteration' = [iteration EXCEPT !.done = TRUE]
  /\ UNCHANGED <<list, ref, lastOp, resizes, prepends, appends, longest,
                 dftVars,
                 animVars>>

\* list.forEach(callback) with a callback that records its first argument
CallForEach ==
  /\ iteration.by = "none" \/ iteration.done
  /\ iteration.request < MaxRequests
  /\ iteration' = Iteration("forEach", iteration.request + 1, list.length,
                            forEach(list, 0, <<>>), TRUE)
  /\ UNCHANGED <<list, ref, lastOp, resizes, prepends, appends, longest,
                 dftVars,
                 animVars>>

\* the loop that iterated is over
EndLoop ==
  /\ iteration.done
  /\ iteration' = NoIteration
  /\ UNCHANGED <<list, ref, lastOp, resizes, prepends, appends, longest,
                 dftVars,
                 animVars>>

\* a call on the list, made while no iteration is in progress
ListCall ==
  /\ iteration = NoIteration
  /\ Next

NextIter ==
  \/ ListCall
  \/ CallIterator
  \/ CallNext
  \/ CallForEach
  \/ EndLoop

SpecIter == Init /\ [][NextIter]_vars

\* C26 (iteration): an iteration yields exactly get(0), ..., get(length-1)
\* in this order and then reports its end; a new iteration request starts
\* at index 0 again; neither an iterator nor forEach modifies the list.
C26_IterationYieldsContent ==
  [][ /\ (iteration'.done /\ iteration'.by \in {"iterator", "forEach"}) =>
           /\ iteration'.yielded = Content(list)
           /\ iteration'.index = list.length
      /\ (iteration'.by = "iterator" /\ ~iteration'.done) =>
           /\ iteration'.yielded =
                [i \in 1 .. iteration'.index |-> get(list, i - 1)]
           /\ iteration'.index <= list.length
      /\ iteration'.request # iteration.request =>
           (iteration'.by = "iterator" =>
              iteration'.index = 0 /\ iteration'.yielded = <<>>)
      /\ iteration' # iteration => list' = list ]_vars

\* C26 happens: the second iteration over a list of three elements, the
\* first of them prepended, has yielded them all and reported its end.
C26_Witness ==
  /\ iteration.by = "iterator"
  /\ iteration.request = 2
  /\ iteration.done
  /\ list.length = 3
  /\ lastOp.op = "prepend"
  /\ iteration.yielded = Content(list)

\* the storage slots before the head and after the tail of the window
SlotsBefore(l) == {k \in 0 .. l._capacity - 1 : k < l._head}

SlotsAfter(l) == {k \in 0 .. l._capacity - 1 : k > l._tail}

\* C21 (capacity changes): prepend resizes exactly when no slot is free
\* before head, append exactly when no slot is free after tail, a resize
\* doubles the capacity, clear sets it back to the initial capacity, and
\* pop, get, set and iteration leave it alone.
C21_CapacityChanges ==
  [][ /\ (iteration' = iteration /\ lastOp'.op = "prepend") =>
           list'._capacity = IF SlotsBefore(list) = {}
                               THEN 2 * list._capacity
                               ELSE list._capacity
      /\ (iteration' = iteration /\ lastOp'.op = "append") =>
           list'._capacity = IF SlotsAfter(list) = {}
                               THEN 2 * list._capacity
                               ELSE list._capacity
      /\ (iteration' = iteration /\ lastOp'.op = "clear") =>
           list'._capacity = list.initialCapacity
      /\ (iteration' = iteration /\ lastOp'.op \in {"pop", "get", "set"}) =>
           list'._capacity = list._capacity
      /\ iteration' # iteration =>
           list'._capacity = list._capacity ]_vars

---------------------------------------------------------------------------
(* Claims about the storage of the List. *)

\* C22 (resize): a call that resizes keeps the length and the logical
\* content the list had (the call then adds its item), doubles the
\* capacity, and recentres the window: right after the resize the numbers
\* of free slots before head and after tail differ by at most 1.
C22_ResizeKeepsAndRecentres ==
  [][ resizes' = resizes + 1 =>
        LET byPrepend == lastOp'.op = "prepend"
            resized ==
              [list' EXCEPT !._head = IF byPrepend THEN @ + 1 ELSE @,
                            !._tail = IF byPrepend THEN @ ELSE @ - 1,
                            !.length = @ - 1]
            gap == Cardinality(SlotsBefore(resized))
                     - Cardinality(SlotsAfter(resized))
        IN  /\ resized.length = list.length
            /\ \A i \in 0 .. list.length - 1 :
                 get(resized, i) = get(list, i)
            /\ resized._capacity = 2 * list._capacity
            /\ gap \in {-1, 0, 1} ]_vars

\* C22 happens: a list of the default capacity was resized a second time,
\* by a prepend, with both prepended and appended elements in it.
C22_Witness ==
  /\ list.initialCapacity = DefaultCapacity
  /\ resizes = 2
  /\ lastOp.op = "prepend"
  /\ lastOp.cap = 2 * DefaultCapacity
  /\ list._capacity = 2 * lastOp.cap
  /\ appends > 0

\* C23 (middle placement, as claimed): a fresh or freshly cleared list of
\* initial capacity c >= 1 has head = floor(c / 2) and tail = head - 1,
\* and its first prepend and its first append make no resize; with the
\* default capacity eight prepends or eight appends make no resize.
C23_MiddlePlacementFromOne ==
  LET fresh == clear(list) IN
    /\ (list.initialCapacity >= 1 /\ prepends + appends = 0) =>
         list = List(list.initialCapacity)
    /\ fresh.initialCapacity >= 1 =>
         /\ fresh = List(fresh.initialCapacity)
         /\ fresh._head = fresh.initialCapacity \div 2
         /\ fresh._tail = fresh._head - 1
         /\ ~prependResizes(fresh)
         /\ ~appendResizes(fresh)
    /\ (list.initialCapacity >= 1 /\ prepends + appends = 1) => resizes = 0
    /\ (/\ list.initialCapacity = DefaultCapacity
        /\ prepends = 0 \/ appends = 0
        /\ prepends + appends <= 8) => resizes = 0

\* C23 (middle placement, amended): the same for initial capacity c >= 2.
C23_MiddlePlacementFromTwo ==
  LET fresh == clear(list) IN
    /\ (list.initialCapacity >= 2 /\ prepends + appends = 0) =>
         list = List(list.initialCapacity)
    /\ fresh.initialCapacity >= 2 =>
         /\ fresh = List(fresh.initialCapacity)
         /\ fresh._head = fresh.initialCapacity \div 2
         /\ fresh._tail = fresh._head - 1
         /\ ~prependResizes(fresh)
         /\ ~appendResizes(fresh)
    /\ (list.initialCapacity >= 2 /\ prepends + appends = 1) => resizes = 0
    /\ (/\ list.initialCapacity = DefaultCapacity
        /\ prepends = 0 \/ appends = 0
        /\ prepends + appends <= 8) => resizes = 0

\* C23 happens: eight prepends on a list of the default capacity brought
\* head to slot 0 without a resize.
C23_Witness ==
  /\ list.initialCapacity = DefaultCapacity
  /\ prepends = 8
  /\ appends = 0
  /\ resizes = 0
  /\ list._head = 0
  /\ list._capacity = DefaultCapacity

\* C24 (contiguous window): in every reachable state tail = head + length
\* - 1, the elements are in the slots head .. tail in their logical order,
\* every other slot is empty, and get(i) reads slot head + i.
C24_ContiguousWindow ==
  /\ list._tail = list._head + list.length - 1
  /\ Len(ref) = list.length
  /\ \A i \in 0 .. list.length - 1 :
       /\ get(list, i) = Read(list._buffer, list._head + i)
       /\ get(list, i) = ref[i + 1]
       /\ get(list, i) \in Items
  /\ \A k \in DOMAIN list._buffer :
       (k < list._head \/ k > list._tail) => list._buffer[k] = Null

\* C24 happens: a pop took an item off a list that had been resized and
\* left three elements.
C24_Witness ==
  /\ lastOp.op = "pop"
  /\ lastOp.ret \in Items
  /\ list.length = 3
  /\ list._capacity > list.initialCapacity
  /\ list._head > 0

\* C25 (physical bounds): for every initial capacity >= 1, after any calls,
\* 0 <= head and tail <= capacity - 1, and no slot outside 0 .. capacity-1
\* was ever written.
C25_PhysicalBounds ==
  list.initialCapacity >= 1 =>
    /\ 0 <= list._head
    /\ list._tail <= list._capacity - 1
    /\ DOMAIN list._buffer \subseteq 0 .. list._capacity - 1

\* C27 (set): set(i, v) with 0 <= i < length returns true, makes get(i)
\* return v, and leaves length, capacity and every other element unchanged.
C27_SetInRange ==
  [][ (/\ lastOp'.op = "set"
       /\ 0 <= lastOp'.index
       /\ lastOp'.index < list.length) =>
        /\ lastOp'.ok
        /\ get(list', lastOp'.index) = lastOp'.item
        /\ list'.length = list.length
        /\ list'._capacity = list._capacity
        /\ \A j \in 0 .. list.length - 1 :
             j # lastOp'.index => get(list', j) = get(list, j) ]_vars

\* C27 happens: set(3, v) on a list of four elements replaced the last
\* element by a different item.
C27_Witness ==
  /\ lastOp.op = "set"
  /\ lastOp.ok
  /\ lastOp.index = 3
  /\ list.length = 4
  /\ get(list, 3) = lastOp.item
  /\ get(list, 0) # lastOp.item
  /\ list._head # 0

---------------------------------------------------------------------------
(* Claims about the shape of the transform (checked under SpecStartup). *)

\* C28 (frequency order): for a path of N points dft returns exactly N
\* descriptors, the one at index k has frequency k, so each frequency
\* 0 .. N-1 occurs exactly once.
C28_FrequencyOrder ==
  pc = "running" =>
    /\ Len(X) = Len(helloPath)
    /\ \A k \in 0 .. Len(helloPath) - 1 : X[k + 1].freq = k
    /\ \A f \in 0 .. Len(helloPath) - 1 :
         Cardinality({j \in 1 .. Len(X) : X[j].freq = f}) = 1

\* C28 happens: the transform of four points returned four descriptors in
\* frequency order, which is not the order of their amplitudes.
C28_Witness ==
  /\ pc = "running"
  /\ Len(helloPath) = 4
  /\ Len(X) = 4
  /\ X[4].freq = 3
  /\ fourier # X
  /\ fourier[1].freq = 3

---------------------------------------------------------------------------
(* Claims about the trail (checked under SpecAnim). *)

\* the tip of the chain of vectors at time t * dt, as an item of the trail
TipAt(t) == Point(Epicycles(fourier, t, 1, <<0, 0>>))

---------------------------------------------------------------------------
(* The trail and the frames processed. *)

\* a = b, for numbers that are not NaN
Eq(a, b) == ~Lt(a, b) /\ ~Lt(b, a)

---------------------------------------------------------------------------
(* The first tick after a reset, and what startup computes. *)

\* C34: the first tick after startup or a resizeCanvas (lastFrameTime is
\* still 0) processes no frame: it stores its own timestamp in
\* lastFrameTime and leaves time 0, the trail empty and the tip alone; no
\* frame is processed before a tick more than the target interval later
\* than the timestamp stored, so until then time is 0 and the trail empty
C34_FirstTickOnlyRecords ==
  [][pc = "running" /\ lastHandler'.kind = "tick" =>
       /\ lastFrameTime = 0 =>
             /\ ~lastHandler'.processed
             /\ lastFrameTime' = now
             /\ lastHandler'.drawn = <<>>
             /\ time = 0 /\ time' = 0
             /\ path.length = 0 /\ path' = path
             /\ tip' = tip
       /\ lastHandler'.processed =>
             /\ lastFrameTime # 0
             /\ (now - lastFrameTime) * 60 * animationSpeed > Ms(1000)
       /\ lastHandler.frames = 0 /\ ~lastHandler'.processed =>
             time' = 0 /\ path'.length = 0]_vars

\* after a resize event the first tick has run and only stored its
\* timestamp
C34_Witness ==
  /\ pc = "running"
  /\ lastHandler.kind = "tick"
  /\ ~lastHandler.processed
  /\ lastHandler.frames = 0
  /\ resizedAt > 1
  /\ lastFrameTime = now
  /\ time = 0
  /\ path.length = 0


\* C36: the descriptors, the time step and the bounding box of the path are
\* what startup computes from the path (N descriptors in their sorted
\* order, dt = 2 pi / N, the box of the points), and no tick, resize or
\* click changes them
C36_StartupValuesFixed ==
  [][/\ pc = "path" /\ pc' = "running" =>
          /\ X' = dft(complexPoints(helloPath'))
          /\ fourier' = sort(X')
          /\ Len(fourier') = Len(helloPath')
          /\ Eq(Mul(dt', Num(Len(fourier'))), Num(1))
          /\ design' = Design(helloPath')
     /\ pc = "running" =>
          /\ pc' = "running"
          /\ fourier' = fourier
          /\ X' = X
          /\ dt' = dt
          /\ design' = design
          /\ helloPath' = helloPath]_vars

\* a frame was processed after a resize and the descriptors, the time step
\* and the box are those of startup
C36_Witness ==
  /\ pc = "running"
  /\ lastHandler.kind = "tick"
  /\ lastHandler.processed
  /\ resizedAt > 1
  /\ Len(fourier) = 4
  /\ fourier = sort(dft(complexPoints(helloPath)))
  /\ dt = [n |-> 1, d |-> 4]
  /\ design = Design(helloPath)


---------------------------------------------------------------------------
(* The scale of a frame. *)

\* a <= b, for numbers that are not NaN
Le(a, b) == ~Lt(b, a)

\* 0.9, the padding factor of draw
Padding == [n |-> 9, d |-> 10]

\* C38: for a path of positive width and height on a canvas of positive
\* size, a processed frame draws with scale
\* 0.9 * min(cssWidth / designWidth, cssHeight / designHeight); the scaled
\* path is at most 0.9 of the canvas in each dimension and exactly 0.9 of
\* it in one, and the centre of the bounding box is drawn at the centre of
\* the canvas
C38_ScaleFitsAndCentres ==
  ( /\ pc = "running"
    /\ lastHandler.kind = "tick"
    /\ lastHandler.processed
    /\ Gt(design.designWidth, Num(0))
    /\ Gt(design.designHeight, Num(0))
    /\ Gt(canvas.width, Num(0))
    /\ Gt(canvas.height, Num(0)) ) =>
    LET s  == lastHandler.scale
        w  == canvas.width
        h  == canvas.height
        dw == design.designWidth
        dh == design.designHeight
        c  == toCanvas(canvas, design, s,
                       design.designCenterX, design.designCenterY)
    IN  /\ isFinite(s)
        /\ Eq(s, Mul(Padding, MathMin(Div(w, dw), Div(h, dh))))
        /\ Le(Mul(s, dw), Mul(Padding, w))
        /\ Le(Mul(s, dh), Mul(Padding, h))
        /\ Eq(Mul(s, dw), Mul(Padding, w)) \/ Eq(Mul(s, dh), Mul(Padding, h))
        /\ Eq(c[1], Div(w, Num(2)))
        /\ Eq(c[2], Div(h, Num(2)))
        /\ Eq(Add(design.designCenterX, design.designCenterX),
              Add(design.minX, design.maxX))
        /\ Eq(Add(design.designCenterY, design.designCenterY),
              Add(design.minY, design.maxY))

\* a frame of the path 13 wide and 3 high on the canvas 300 by 200: the
\* width decides the scale, and the scaled height is less than 0.9 of the
\* canvas
C38_Witness ==
  /\ pc = "running"
  /\ lastHandler.kind = "tick"
  /\ lastHandler.processed
  /\ design.designWidth = Num(13)
  /\ design.designHeight = Num(3)
  /\ canvas.width = Num(300)
  /\ Eq(Mul(lastHandler.scale, design.designWidth), Mul(Padding, canvas.width))
  /\ Lt(Mul(lastHandler.scale, design.designHeight),
        Mul(Padding, canvas.height))


---------------------------------------------------------------------------
(* A display that refreshes at exactly 60 Hz. *)

\* the refresh interval of a 60 Hz display, 1000 / 60 ms
RefreshInterval == Ms(1000) \div 60

\* the scheduler starts a frame one refresh interval after the last one
RefreshFrame ==
  /\ pc = "running"
  /\ frame = <<>>
  /\ callbacks # {}
  /\ now + RefreshInterval <= MaxClock
  /\ now' = now + RefreshInterval
  /\ frame' = InOrder(Handles(callbacks))
  /\ lastHandler' = Handler("frame", 0, FALSE, 0, NaN, <<>>)
  /\ UNCHANGED <<helloPath, X, fourier, time, tip, pc, design, dt, path,
                 lastFrameTime, animationFrameId, canvas, callbacks,
                 nextHandle, resizedAt, listVars>>

NextSixty ==
  \/ Load
  \/ RefreshFrame
  \/ Tick
  \/ FullscreenResize
  \/ SkipCancelled
  \/ ResizeEvent
  \/ Click

SpecSixty == InitAnim /\ [][NextSixty]_vars

\* C35: at speed 1 the gate does not throttle a 60 Hz display: when the
\* frames come exactly 1000 / 60 ms apart, every tick but the first after
\* a reset (the one that finds lastFrameTime unset) processes a frame
C35_NoThrottleAtSixty ==
  [][pc = "running" /\ lastHandler'.kind = "tick" /\ lastFrameTime # 0 =>
       lastHandler'.processed]_vars


---------------------------------------------------------------------------
(* The loop under a scheduler that keeps calling: a frame begins while a
   request is pending, and a frame calls each of its callbacks. Resize
   events and clicks may or may not happen. The loop does not depend on
   the path, so one path is followed. *)

\* the path of the loop: a segment
InitLoop == InitAnim /\ helloPath = << <<0, 0>>, <<10, 0>> >>

\* what the browser does on its own: it loads the page, begins a frame
\* and calls the callbacks of the frame
Scheduler ==
  \/ Load
  \/ BeginFrame
  \/ Tick
  \/ FullscreenResize
  \/ SkipCancelled

SpecLoop ==
  /\ InitLoop
  /\ [][NextAnim]_vars
  /\ WF_vars(Scheduler)

\* no callback of the fullscreen button is pending
NoResizePending == \A c \in callbacks : c.fn # "resize"

\* the last handler run was a tick that processed a frame, a resize event
\* or a click
Progressed ==
  \/ lastHandler.kind = "tick" /\ lastHandler.processed
  \/ lastHandler.kind \in {"resize", "fullscreen", "click"}

\* the loop is started, the last handler run was none of those, and handles
\* and clock leave room for four frames
Waiting ==
  /\ pc = "running"
  /\ ~Progressed
  /\ nextHandle + 4 <= MaxHandle
  /\ now + 4 * RefreshInterval <= MaxClock

\* C33: every run of the tick handler, whether the gate passes or not,
\* removes its own request and makes exactly one new draw request, so that
\* exactly one draw request is pending in every state once started; and the
\* loop does not stall: from any state with room left in the handles and
\* the clock whose last handler run was neither a processed frame, a
\* resize nor a click, a frame is processed later unless a resize or a
\* click comes first
C33_LoopNeverStalls ==
  /\ [](pc = "running" => Cardinality(DrawRequests(callbacks)) = 1)
  /\ [][pc = "running" /\ lastHandler'.kind = "tick" =>
          /\ nextHandle' = nextHandle + 1
          /\ animationFrameId' = nextHandle'
          /\ callbacks' =
                (callbacks \ {Request(lastHandler'.handle)})
                  \cup {[handle |-> nextHandle', fn |-> "draw"]}
          /\ Cardinality(DrawRequests(callbacks')) = 1]_vars
  /\ Waiting ~> Progressed

\* a tick that the gate held back, two frames after the last resize, has
\* requested the next frame
C33_Witness ==
  /\ pc = "running"
  /\ lastHandler.kind = "tick"
  /\ ~lastHandler.processed
  /\ lastHandler.frames = 2
  /\ lastFrameTime # now
  /\ resizedAt > 1
  /\ NoResizePending
  /\ DrawRequests(callbacks) = {[handle |-> nextHandle, fn |-> "draw"]}
  /\ animationFrameId = nextHandle


---------------------------------------------------------------------------
(* Storage against use: runs of prepend, append, pop and clear that keep
   the largest length the list has had since it was created or cleared. *)

\* the larger of a and b
Max(a, b) == IF a >= b THEN a ELSE b

InitUse ==
  /\ \E c \in 1 .. MaxInitCap : list = List(c) /\ lastOp = NoCall(c)
  /\ ref = <<>>
  /\ resizes = 0
  /\ prepends = 0
  /\ appends = 0
  /\ iteration = NoIteration
  /\ longest = 0
  /\ NoPath

UsePrepend ==
  \E item \in Items :
    /\ Bounded(prepend(list, item))
    /\ list' = prepend(list, item)
    /\ ref' = <<item>> \o ref
    /\ lastOp' = Call("prepend", 0, item, list'.length, FALSE,
                     list._capacity)
    /\ longest' = Max(longest, list'.length)
    /\ UNCHANGED <<resizes, prepends, appends, iteration, dftVars, animVars>>

UseAppend ==
  \E item \in Items :
    /\ Bounded(append(list, item))
    /\ list' = append(list, item)
    /\ ref' = ref \o <<item>>
    /\ lastOp' = Call("append", 0, item, list'.length, FALSE,
                     list._capacity)
    /\ longest' = Max(longest, list'.length)
    /\ UNCHANGED <<resizes, prepends, appends, iteration, dftVars, animVars>>

UsePop ==
  /\ list' = pop(list)
  /\ ref' = RefPop(ref)
  /\ lastOp' = Call("pop", 0, Null, popResult(list), FALSE,
                     list._capacity)
  /\ UNCHANGED <<resizes, prepends, appends, iteration, longest, dftVars,
                 animVars>>

UseClear ==
  /\ list' = clear(list)
  /\ ref' = <<>>
  /\ lastOp' = Call("clear", 0, Null, Undefined, FALSE,
                     list._capacity)
  /\ longest' = 0
  /\ UNCHANGED <<resizes, prepends, appends, iteration, dftVars, animVars>>

NextUse == UsePrepend \/ UseAppend \/ UsePop \/ UseClear

SpecUse == InitUse /\ [][NextUse]_vars

\* C37: the capacity is bounded by use: after any calls of prepend, append
\* and pop since the list was created or last cleared, the capacity is at
\* most the larger of the initial capacity and four times the largest
\* length the list has had since then; so a window that slides (prepend
\* one item, pop one item, again and again) does not make the capacity grow
C37_CapacityBoundedByUse ==
  list._capacity <= Max(list.initialCapacity, 4 * longest)

=============================================================================
